---- MODULE Spec2Model ----
(***************************************************************************)
(* EdgeAlert (src/main.py): the polling cycle poll_markets, the change     *)
(* detector check_alert_conditions, the cooldown gate should_send_alert,   *)
(* the free-tier quota check, the market cache and the subscribe and       *)
(* threshold commands, over the three SQLite tables users, alert_cache and *)
(* market_cache.                                                           *)
(*                                                                         *)
(* Units.  A price is a number of sixteenths (yes_price = k/16): on these  *)
(* binary fractions the float expression ((new - old) / old) * 100 of      *)
(* line 139 compares with an integer threshold exactly as the rational     *)
(* does.  A volume is a whole currency amount.  A threshold is a whole     *)
(* percentage.  A timestamp is a number of minutes since day 0, 00:00.     *)
(***************************************************************************)
EXTENDS Integers, Sequences, FiniteSets, TLC

(***************************************************************************)
(* Program constants                                                       *)
(***************************************************************************)
WhaleVolumePct == 200

WhaleVolumeFloor == 5000

CooldownMinutes == 30

DailyLimit == 3

DefaultThreshold == 5

MinThreshold == 1

MaxThreshold == 20

DayMinutes == 24 * 60

(***************************************************************************)
(* Bounds of the model                                                     *)
(***************************************************************************)
MaxTicks == 1

MaxKeywords == 2

\* minutes of clock in the runs of should_send_alert on its own
MaxElapsed == 61

(***************************************************************************)
(* The change detector                                                     *)
(***************************************************************************)
Abs(x) == IF x < 0 THEN -x ELSE x

\* old_data of poll_markets: <<>> is None, <<row>> a row of market_cache
NoData == <<>>

\* ((new - old) / old) * 100 if old > 0 else 0, as the fraction PctNum / PctDen
PctNum(new, old) == IF old > 0 THEN (new - old) * 100 ELSE 0

PctDen(old) == IF old > 0 THEN old ELSE 1

NoAlert == [should_alert |-> FALSE, alert_type |-> "None"]

Alert(kind) == [should_alert |-> TRUE, alert_type |-> kind]

\* float('nan'), which the float converter of the command accepts, and the
\* NULL that sqlite3 stores when NaN is bound to a REAL column: two values
\* outside the percentages
NaN == 0 - 1000

Null == 0 - 1001

\* the comparison of line 145 with > for >=
PriceRuleStrict(new_price, old_price, threshold) ==
    Abs(PctNum(new_price, old_price)) > threshold * PctDen(old_price)

\* abs(price_change) >= threshold
PriceRule(new_price, old_price, threshold) ==
    Abs(PctNum(new_price, old_price)) >= threshold * PctDen(old_price)

\* line 154 without the floor on the current volume
WhaleRuleNoFloor(new_volume, old_volume) ==
    PctNum(new_volume, old_volume) > WhaleVolumePct * PctDen(old_volume)

\* volume_change > 200 and new_volume > 5000
WhaleRule(new_volume, old_volume) ==
    /\ PctNum(new_volume, old_volume) > WhaleVolumePct * PctDen(old_volume)
    /\ new_volume > WhaleVolumeFloor

\* the detector with condition 2 tested before condition 1
check_alert_conditions_whale_first(market, old_data, threshold) ==
    IF old_data = NoData
    THEN NoAlert
    ELSE IF WhaleRule(market.volume_24h, old_data[1].last_volume)
         THEN Alert("whale_alert")
         ELSE IF PriceRule(market.yes_price, old_data[1].last_price, threshold)
              THEN Alert("price_shift")
              ELSE NoAlert

\* the detector without the guard of line 130: a market seen for the first
\* time is compared with the default price 0.5 and volume 0 of the fetch
check_alert_conditions_no_guard(market, old_data, threshold) ==
    LET old == IF old_data = NoData
               THEN [last_price |-> 8, last_volume |-> 0]
               ELSE old_data[1]
    IN  IF PriceRule(market.yes_price, old.last_price, threshold)
        THEN Alert("price_shift")
        ELSE IF WhaleRule(market.volume_24h, old.last_volume)
             THEN Alert("whale_alert")
             ELSE NoAlert

\* the TypeError of line 145: abs(price_change) >= None
Raised == [should_alert |-> FALSE, alert_type |-> "TypeError"]

check_alert_conditions(market, old_data, threshold) ==
    IF old_data = NoData
    THEN NoAlert
    ELSE IF threshold = Null
    THEN Raised
    ELSE LET old_price == old_data[1].last_price
             old_volume == old_data[1].last_volume
             new_price == market.yes_price
             new_volume == market.volume_24h
         IN  IF PriceRule(new_price, old_price, threshold)
             THEN Alert("price_shift")
             ELSE IF WhaleRule(new_volume, old_volume)
                  THEN Alert("whale_alert")
                  ELSE NoAlert

(***************************************************************************)
(* Text: a string is a sequence of one-character strings                   *)
(***************************************************************************)
\* str.lower() on the alphabet of the model
LowerChar(c) == CASE c = "B" -> "b"
                  [] c = "T" -> "t"
                  [] c = "C" -> "c"
                  [] OTHER -> c

Lower(s) == [i \in 1..Len(s) |-> LowerChar(s[i])]

RECURSIVE JoinWords(_)
\* ' '.join(words)
JoinWords(words) ==
    IF words = <<>> THEN <<>>
    ELSE IF Len(words) = 1 THEN words[1]
    ELSE words[1] \o <<" ">> \o JoinWords(Tail(words))

RECURSIVE SplitFrom(_, _)
\* str.split(): the maximal runs of non-blank characters, in order
SplitFrom(s, word) ==
    IF s = <<>>
    THEN IF word = <<>> THEN <<>> ELSE <<word>>
    ELSE IF Head(s) = " "
         THEN IF word = <<>> THEN SplitFrom(Tail(s), <<>>)
              ELSE <<word>> \o SplitFrom(Tail(s), <<>>)
         ELSE SplitFrom(Tail(s), Append(word, Head(s)))

Split(s) == SplitFrom(s, <<>>)

\* kw in text
IsSubstring(kw, text) ==
    \E i \in 1..(Len(text) - Len(kw) + 1) : SubSeq(text, i, i + Len(kw) - 1) = kw

(***************************************************************************)
(* The markets the data source can return                                  *)
(***************************************************************************)
MarketIds == {"m1", "m2", "m3"}

\* question (as fetched) and category (lower-cased by the fetch) of each market
Question(id) == CASE id = "m1" -> <<"B", "T", "C">>
                  [] id = "m2" -> <<"x">>
                  [] OTHER -> <<"a", " ", "b", "t", "c">>

Category(id) == CASE id = "m2" -> <<"b", "t", "c">>
                  [] OTHER -> <<"n", "f", "l">>

Prices == {9, 10}

Volumes == {1000}

Snapshot(id, price, volume) ==
    [id |-> id, question |-> Question(id), yes_price |-> price,
     volume_24h |-> volume, category |-> Category(id)]

Snapshots == {Snapshot(id, p, v) : id \in MarketIds, p \in Prices, v \in Volumes}

\* a listing of the source: the given markets in order, each one listed or
\* not, at any price and volume
RECURSIVE ListingsOf(_)
ListingsOf(ids) ==
    IF ids = <<>> THEN {<<>>}
    ELSE LET rest == ListingsOf(Tail(ids))
         IN  rest \cup {<<Snapshot(Head(ids), p, v)>> \o b :
                          p \in Prices, v \in Volumes, b \in rest}

\* a listing in which one market comes twice, at two prices
Doubles ==
    {b \in {<<Snapshot("m1", p, v), Snapshot("m1", q, w)>> :
              p \in Prices, v \in Volumes, q \in Prices, w \in Volumes} :
       b[1].yes_price # b[2].yes_price}

\* the batches of a fetch
Batches == ListingsOf(<<"m1", "m2">>) \cup Doubles

\* the batches of a fetch that lists three markets, or nothing
WideBatches ==
    {b \in ListingsOf(<<"m1", "m2", "m3">>) : Len(b) \in {0, Cardinality(MarketIds)}}

(***************************************************************************)
(* The users and the commands they can send                                *)
(***************************************************************************)
UserIds == {"u1", "u2"}

\* the argument tuples of /subscribe
SubscribeArgs == {<<>>, <<<<"B", "t", "c">>>>}

\* the users who send commands
Commanders == {"u1"}

\* the percentages of /threshold sent while the cycles run: below the
\* range, in it, above it (nan is sent too)
ThresholdArgs == {0, 11, 21}

\* a < b on floats: false when either side is NaN
FloatLess(a, b) == a # NaN /\ b # NaN /\ a < b

\* the value of the column after a float was bound to it
StoredReal(x) == IF x = NaN THEN Null ELSE x

\* the arguments of /threshold with the bounds, their neighbours and NaN
AllThresholdArgs == {0, 1, 11, 20, 21, NaN}

\* a row of users that an upgrade wrote: is_pro = 1, keywords empty
ProRow(u) == [user_id |-> u, keywords |-> <<>>, threshold |-> DefaultThreshold,
              is_pro |-> TRUE]

\* the row /subscribe inserts
SubscribedRow(u, keywords) ==
    [user_id |-> u, keywords |-> keywords, threshold |-> DefaultThreshold,
     is_pro |-> FALSE]

(***************************************************************************)
(* Time                                                                    *)
(***************************************************************************)
TickMinutes == CooldownMinutes

\* 00:00 of day 1
StartTime == DayMinutes

\* 23:30 of day 0
LateStartTime == DayMinutes - TickMinutes

\* the clock stops MaxTicks ticks after the earliest start
EndTime(start) == start + MaxTicks * TickMinutes

\* datetime.date() / DATE(timestamp)
Date(t) == t \div DayMinutes

(***************************************************************************)
(* State                                                                   *)
(***************************************************************************)
VARIABLES
    users,          \* table users, in rowid order
    alert_cache,    \* table alert_cache: <<market_id, user_id>> -> timestamp
    market_cache,   \* table market_cache: market_id -> last_price, last_volume
    now,            \* datetime.now()
    start_time,     \* the time at which the process started
    loop_running,   \* poll_markets.is_running()
    pc,             \* where poll_markets is: idle, user, quota or deliver
    markets,        \* poll_markets: the fetched list
    user_rows,      \* poll_markets: the rows read from users
    mi,             \* poll_markets: index of the market of the outer loop
    ui,             \* poll_markets: index of the row of the inner loop
    old_data,       \* poll_markets: the cached state read for the market
    alerts_sent,    \* poll_markets: the counter of line 399
    prev_ts,        \* history: the record the pair being handled had before its grant
    last_notified,  \* history: pair -> grant time of its last Notifier call
    notify_count,   \* history: user -> day and Notifier calls of that day, if counted
    last_start,     \* history: start time of the previous cycle
    repeat,         \* history: start of the cycle the cycle in progress repeats
    subs_changed,   \* history: users was written since the previous cycle read it
    ev,             \* an evaluation of check_alert_conditions on its own
    acq,            \* a call of should_send_alert on its own, and the grants so far
    loops_alive,    \* history: the number of poll_markets loop tasks alive
    quota_denied    \* history: user -> the day of the last refusal by the quota check

tables == <<users, alert_cache, market_cache>>

locals == <<markets, user_rows, mi, ui, old_data, alerts_sent>>

history == <<prev_ts, last_notified, notify_count, last_start, repeat, subs_changed>>

vars == <<users, alert_cache, market_cache, now, start_time, loop_running, pc, markets,
          user_rows, mi, ui, old_data, alerts_sent, prev_ts, last_notified, notify_count,
          last_start, repeat, subs_changed, ev, acq, loops_alive, quota_denied>>

EmptyTable == [k \in {} |-> 0]

\* notify_count in the behaviours that do not count the Notifier calls
NotCounted == EmptyTable

Upsert(table, key, value) ==
    [k \in DOMAIN table \cup {key} |-> IF k = key THEN value ELSE table[k]]

PendingEval == [should_alert |-> FALSE, alert_type |-> "pending"]

IdleEv == [market |-> Snapshot("m1", 0, 0), old_data |-> NoData,
           threshold |-> DefaultThreshold, out |-> PendingEval]

\* no call of should_send_alert on its own was made
IdleAcq == [key |-> <<>>, at |-> 0, granted |-> FALSE, since |-> <<>>,
            was |-> <<>>, grants |-> EmptyTable]

(***************************************************************************)
(* The stores                                                              *)
(***************************************************************************)
get_cached_market_data(table, market_id) ==
    IF market_id \in DOMAIN table THEN <<table[market_id]>> ELSE NoData

update_market_cache(table, market) ==
    Upsert(table, market.id,
           [last_price |-> market.yes_price, last_volume |-> market.volume_24h])

\* should_send_alert without the test of line 202
should_send_alert_no_cooldown(table, market_id, user_id, t) == TRUE

\* the test of line 202 with <= for <
should_send_alert_strict(table, market_id, user_id, t) ==
    ~ (/\ <<market_id, user_id>> \in DOMAIN table
       /\ t - table[<<market_id, user_id>>] <= CooldownMinutes)

\* the result of should_send_alert at time t
should_send_alert(table, market_id, user_id, t) ==
    ~ (/\ <<market_id, user_id>> \in DOMAIN table
       /\ t - table[<<market_id, user_id>>] < CooldownMinutes)

\* should_send_alert writing the time of the call whatever it returns
mark_as_alerted_refresh(table, market_id, user_id, t) ==
    Upsert(table, <<market_id, user_id>>, t)

\* alert_cache after should_send_alert at time t
mark_as_alerted(table, market_id, user_id, t) ==
    IF should_send_alert(table, market_id, user_id, t)
    THEN Upsert(table, <<market_id, user_id>>, t)
    ELSE table

\* the count of lines 429-435 over the rows of the last 30 minutes, not of
\* the calendar day
alert_count_recent(table, user_id, t) ==
    Cardinality({k \in DOMAIN table :
                   k[2] = user_id /\ t - table[k] < CooldownMinutes})

\* SELECT COUNT(*) FROM alert_cache WHERE user_id = ? AND DATE(timestamp) = today
alert_count(table, user_id, t) ==
    Cardinality({k \in DOMAIN table : k[2] = user_id /\ Date(table[k]) = Date(t)})

\* the free-tier check with > for the >= of line 437
has_quota_off_by_one(table, row, t) ==
    row.is_pro \/ ~ (alert_count(table, row.user_id, t) > DailyLimit)

\* the free-tier check of poll_markets: FALSE is the `continue` of line 438
has_quota(table, row, t) ==
    row.is_pro \/ ~ (alert_count(table, row.user_id, t) >= DailyLimit)

\* the filter of line 411 without the comparison with the category
market_matches_no_category(market, keywords) ==
    LET user_keywords == IF keywords # <<>> THEN Split(keywords) ELSE <<>>
    IN  ~ (/\ user_keywords # <<>>
           /\ ~ \E i \in 1..Len(user_keywords) :
                   IsSubstring(user_keywords[i], Lower(market.question)))

\* the keyword filter of poll_markets: FALSE is the `continue` of line 414
market_matches(market, keywords) ==
    LET user_keywords == IF keywords # <<>> THEN Split(keywords) ELSE <<>>
    IN  ~ (/\ user_keywords # <<>>
           /\ ~ \E i \in 1..Len(user_keywords) :
                   \/ IsSubstring(user_keywords[i], Lower(market.question))
                   \/ user_keywords[i] = market.category)

UserIndex(table, user_id) ==
    {i \in 1..Len(table) : table[i].user_id = user_id}

(***************************************************************************)
(* Initial state: the tables init_database creates, empty but for a row of *)
(* users that an upgrade may have written                                  *)
(***************************************************************************)
Init ==
    /\ users \in {<<>>, <<ProRow("u2")>>}
    /\ alert_cache = EmptyTable
    /\ market_cache = EmptyTable
    /\ now = StartTime
    /\ start_time = StartTime
    /\ loop_running = FALSE
    /\ pc = "idle"
    /\ markets = <<>>
    /\ user_rows = <<>>
    /\ mi = 1
    /\ ui = 1
    /\ old_data = NoData
    /\ alerts_sent = 0
    /\ prev_ts = <<>>
    /\ last_notified = EmptyTable
    /\ notify_count = NotCounted
    /\ last_start = <<>>
    /\ repeat = <<>>
    /\ subs_changed = FALSE
    /\ ev = IdleEv
    /\ acq = IdleAcq
    /\ loops_alive = 0
    /\ quota_denied = [u \in UserIds |-> <<>>]

(***************************************************************************)
(* The clock and the bot events                                            *)
(***************************************************************************)
\* the clock moves between any two of its readings: between cycles, between
\* the pairs of a cycle, between the record of line 209 and the date of line
\* 428, and while a delivery is awaited
Tick ==
    /\ now < EndTime(start_time)
    /\ now' = now + TickMinutes
    /\ UNCHANGED <<tables, start_time, loop_running, pc, locals, history, ev, acq,
                   loops_alive, quota_denied>>

\* on_ready calling poll_markets.start() without the test of line 228
on_ready_no_guard ==
    /\ loop_running' = TRUE
    /\ loops_alive' = loops_alive + 1
    /\ UNCHANGED <<tables, now, start_time, pc, locals, history, ev, acq, quota_denied>>

on_ready ==
    /\ IF ~ loop_running
       THEN /\ loop_running' = TRUE
            /\ loops_alive' = loops_alive + 1
       ELSE UNCHANGED <<loop_running, loops_alive>>
    /\ UNCHANGED <<tables, now, start_time, pc, locals, history, ev, acq, quota_denied>>

\* an exception leaves poll_markets: the cycle ends where it is and the loop
\* task of discord.ext.tasks ends with it (is_running() is False from then
\* on); the fetched list is kept for the properties
poll_markets_raises ==
    /\ pc' = "idle"
    /\ loop_running' = FALSE
    /\ loops_alive' = 0
    /\ mi' = 1
    /\ ui' = 1
    /\ old_data' = NoData
    /\ alerts_sent' = 0
    /\ user_rows' = <<>>
    /\ prev_ts' = <<>>
    /\ repeat' = <<>>

\* a command handler runs when the poll task is not running: between cycles
\* or while the cycle awaits a delivery
CommandCanRun == pc \in {"idle", "deliver"}

subscribe(user_id, keywords) ==
    /\ CommandCanRun
    /\ IF keywords = <<>>
       THEN UNCHANGED users
       ELSE LET keywords_str == Lower(JoinWords(keywords))
                at == UserIndex(users, user_id)
            IN  IF at # {}
                THEN LET i == CHOOSE j \in at : TRUE
                         new_keywords == users[i].keywords \o <<" ">> \o keywords_str
                     IN  /\ Len(Split(new_keywords)) <= MaxKeywords
                         /\ users' = [users EXCEPT ![i].keywords = new_keywords]
                ELSE users' = Append(users,
                                [user_id |-> user_id, keywords |-> keywords_str,
                                 threshold |-> DefaultThreshold, is_pro |-> FALSE])
    /\ subs_changed' = (subs_changed \/ users' # users)
    /\ UNCHANGED <<alert_cache, market_cache, now, start_time, loop_running, pc, locals,
                   prev_ts, last_notified, notify_count, last_start, repeat, ev,
                   acq, loops_alive, quota_denied>>

set_threshold(user_id, percentage) ==
    /\ CommandCanRun
    /\ IF FloatLess(percentage, MinThreshold) \/ FloatLess(MaxThreshold, percentage)
       THEN UNCHANGED users
       ELSE users' = [i \in 1..Len(users) |->
                        IF users[i].user_id = user_id
                        THEN [users[i] EXCEPT !.threshold = StoredReal(percentage)]
                        ELSE users[i]]
    /\ subs_changed' = (subs_changed \/ users' # users)
    /\ UNCHANGED <<alert_cache, market_cache, now, start_time, loop_running, pc, locals,
                   prev_ts, last_notified, notify_count, last_start, repeat, ev,
                   acq, loops_alive, quota_denied>>

(***************************************************************************)
(* poll_markets                                                            *)
(***************************************************************************)
\* what the request and the conversion of lines 75-96 can do: "ok" returns
\* the list, "request_error" is a RequestException (line 98, the empty list),
\* "error" is an exception no except clause of the function names (TypeError
\* of float(None) or None[0], AttributeError of None.lower())
FetchOutcomes == {"ok", "request_error", "error"}

\* the call of line 380: the list returned, or an exception raised
fetch_polymarket_markets(batch, outcome) ==
    CASE outcome = "ok" -> [raised |-> FALSE, value |-> batch]
      [] outcome = "request_error" -> [raised |-> FALSE, value |-> <<>>]
      [] OTHER -> [raised |-> TRUE, value |-> <<>>]

\* this cycle has the fetched data and the subscriptions of the previous
\* one and starts less than the cooldown window after it
RepeatsPrevious(fetched) ==
    /\ last_start # <<>>
    /\ now - last_start[1] < CooldownMinutes
    /\ fetched = markets
    /\ ~ subs_changed

\* poll_markets clearing the cached market states when the fetch yields
\* nothing
poll_markets_start_clears(batch, outcome) ==
    LET fetch == fetch_polymarket_markets(batch, outcome)
        fetched == fetch.value
    IN  /\ loop_running
        /\ pc = "idle"
        /\ IF fetch.raised
           THEN /\ poll_markets_raises
                /\ UNCHANGED <<market_cache, markets, last_start, subs_changed>>
           ELSE /\ UNCHANGED <<loop_running, loops_alive, prev_ts>>
                /\ markets' = fetched
                /\ last_start' = <<now>>
                /\ repeat' = IF fetched # <<>> /\ users # <<>> /\ RepeatsPrevious(fetched)
                             THEN last_start
                             ELSE <<>>
                /\ subs_changed' = FALSE
                /\ IF fetched = <<>>
                   THEN /\ user_rows' = <<>>
                        /\ market_cache' = EmptyTable
                        /\ UNCHANGED <<pc, mi, ui, old_data, alerts_sent>>
                   ELSE /\ user_rows' = users
                        /\ market_cache' = market_cache
                        /\ IF users = <<>>
                           THEN UNCHANGED <<pc, mi, ui, old_data, alerts_sent>>
                           ELSE /\ pc' = "user"
                                /\ mi' = 1
                                /\ ui' = 1
                                /\ alerts_sent' = 0
                                /\ old_data' = get_cached_market_data(market_cache,
                                                                      fetched[1].id)
        /\ UNCHANGED <<users, alert_cache, now, start_time, last_notified,
                       notify_count, ev, acq, quota_denied>>

\* lines 377-404: fetch, read the subscriptions, enter the loops
poll_markets_start(batch, outcome) ==
    LET fetch == fetch_polymarket_markets(batch, outcome)
        fetched == fetch.value
    IN  /\ loop_running
        /\ pc = "idle"
        /\ IF fetch.raised
           THEN /\ poll_markets_raises
                /\ UNCHANGED <<markets, last_start, subs_changed>>
           ELSE /\ UNCHANGED <<loop_running, loops_alive, prev_ts>>
                /\ markets' = fetched
                /\ last_start' = <<now>>
                /\ repeat' = IF fetched # <<>> /\ users # <<>> /\ RepeatsPrevious(fetched)
                             THEN last_start
                             ELSE <<>>
                /\ subs_changed' = FALSE
                /\ IF fetched = <<>>
                   THEN /\ user_rows' = <<>>
                        /\ UNCHANGED <<pc, mi, ui, old_data, alerts_sent>>
                   ELSE /\ user_rows' = users
                        /\ IF users = <<>>
                           THEN UNCHANGED <<pc, mi, ui, old_data, alerts_sent>>
                           ELSE /\ pc' = "user"
                                /\ mi' = 1
                                /\ ui' = 1
                                /\ alerts_sent' = 0
                                /\ old_data' = get_cached_market_data(market_cache,
                                                                      fetched[1].id)
        /\ UNCHANGED <<tables, now, start_time, last_notified, notify_count,
                       ev, acq, quota_denied>>

\* the end of one pass of the inner loop: the next row, or line 449 and the
\* next market, or the end of the cycle, where line 451 prints the counter
\* (the fetched list is kept for the properties, the other locals and the
\* history of the pair and of the cycle are dropped); sent is the counter
\* after this pass
NextPair(sent) ==
    /\ prev_ts' = <<>>
    /\ repeat' = IF ui < Len(user_rows) \/ mi < Len(markets) THEN repeat ELSE <<>>
    /\ IF ui < Len(user_rows)
       THEN /\ ui' = ui + 1
            /\ pc' = "user"
            /\ alerts_sent' = sent
            /\ UNCHANGED <<market_cache, mi, old_data, user_rows>>
       ELSE /\ market_cache' = update_market_cache(market_cache, markets[mi])
            /\ ui' = 1
            /\ IF mi < Len(markets)
               THEN /\ mi' = mi + 1
                    /\ pc' = "user"
                    /\ old_data' = get_cached_market_data(market_cache',
                                                          markets[mi + 1].id)
                    /\ alerts_sent' = sent
                    /\ UNCHANGED user_rows
               ELSE /\ mi' = 1
                    /\ pc' = "idle"
                    /\ old_data' = NoData
                    /\ alerts_sent' = 0
                    /\ user_rows' = <<>>

\* lines 407-424 deciding with the row of the table users as it is now, not
\* with the row read at line 392
poll_markets_check_live ==
    /\ pc = "user"
    /\ LET market == markets[mi]
           row == users[ui]
           passes == market_matches(market, row.keywords)
           result == check_alert_conditions(market, old_data, row.threshold)
       IN  IF passes /\ result = Raised
           THEN /\ poll_markets_raises
                /\ UNCHANGED <<alert_cache, market_cache>>
           ELSE /\ UNCHANGED <<loop_running, loops_alive>>
                /\ IF /\ passes
                      /\ result.should_alert
                      /\ should_send_alert(alert_cache, market.id, row.user_id, now)
                   THEN /\ alert_cache' = mark_as_alerted(alert_cache, market.id,
                                                          row.user_id, now)
                        /\ prev_ts' =
                             IF <<market.id, row.user_id>> \in DOMAIN alert_cache
                             THEN <<alert_cache[<<market.id, row.user_id>>]>>
                             ELSE <<>>
                        /\ pc' = "quota"
                        /\ UNCHANGED <<market_cache, mi, ui, old_data, user_rows,
                                       alerts_sent, repeat>>
                   ELSE /\ NextPair(alerts_sent)
                        /\ UNCHANGED alert_cache
    /\ UNCHANGED <<users, now, start_time, markets, last_notified, notify_count,
                   last_start, subs_changed, ev, acq, quota_denied>>

\* lines 407-424: the filter, the detector and the cooldown gate for one
\* pair; the TypeError of the detector is caught nowhere; the test of line
\* 202 and the record of line 209 read the clock in this one step
poll_markets_check ==
    /\ pc = "user"
    /\ LET market == markets[mi]
           row == user_rows[ui]
           passes == market_matches(market, row.keywords)
           result == check_alert_conditions(market, old_data, row.threshold)
       IN  IF passes /\ result = Raised
           THEN /\ poll_markets_raises
                /\ UNCHANGED <<alert_cache, market_cache>>
           ELSE /\ UNCHANGED <<loop_running, loops_alive>>
                /\ IF /\ passes
                      /\ result.should_alert
                      /\ should_send_alert(alert_cache, market.id, row.user_id, now)
                   THEN /\ alert_cache' = mark_as_alerted(alert_cache, market.id,
                                                          row.user_id, now)
                        /\ prev_ts' =
                             IF <<market.id, row.user_id>> \in DOMAIN alert_cache
                             THEN <<alert_cache[<<market.id, row.user_id>>]>>
                             ELSE <<>>
                        /\ pc' = "quota"
                        /\ UNCHANGED <<market_cache, mi, ui, old_data, user_rows,
                                       alerts_sent, repeat>>
                   ELSE /\ NextPair(alerts_sent)
                        /\ UNCHANGED alert_cache
    /\ UNCHANGED <<users, now, start_time, markets, last_notified, notify_count,
                   last_start, subs_changed, ev, acq, quota_denied>>

\* history: quota_denied after the quota check of the pair being handled
QuotaRefusals ==
    IF has_quota(alert_cache, user_rows[ui], now)
    THEN quota_denied
    ELSE [quota_denied EXCEPT ![user_rows[ui].user_id] = <<Date(now)>>]

\* alert_cache with the row of the key as it was before the last grant
RolledBack(table, key, before) ==
    IF before # <<>>
    THEN Upsert(table, key, before[1])
    ELSE [k \in DOMAIN table \ {key} |-> table[k]]

\* the `continue` of line 438 undoing the cooldown record of the pair
poll_markets_quota_rollback ==
    /\ pc = "quota"
    /\ IF has_quota(alert_cache, user_rows[ui], now)
       THEN /\ pc' = "deliver"
            /\ UNCHANGED <<alert_cache, market_cache, mi, ui, old_data, user_rows,
                           alerts_sent, prev_ts, repeat>>
       ELSE /\ alert_cache' = RolledBack(alert_cache,
                                         <<markets[mi].id, user_rows[ui].user_id>>,
                                         prev_ts)
            /\ NextPair(alerts_sent)
    /\ quota_denied' = QuotaRefusals
    /\ UNCHANGED <<users, now, start_time, loop_running, markets, last_notified,
                   notify_count, last_start, subs_changed, ev, acq, loops_alive>>

\* lines 426-438: the free-tier limit
poll_markets_quota ==
    /\ pc = "quota"
    /\ IF has_quota(alert_cache, user_rows[ui], now)
       THEN /\ pc' = "deliver"
            /\ UNCHANGED <<market_cache, mi, ui, old_data, user_rows, alerts_sent,
                           prev_ts, repeat>>
       ELSE NextPair(alerts_sent)
    /\ quota_denied' = QuotaRefusals
    /\ UNCHANGED <<users, alert_cache, now, start_time, loop_running, markets,
                   last_notified, notify_count, last_start, subs_changed, ev, acq,
                   loops_alive>>

Min(a, b) == IF a < b THEN a ELSE b

\* what the awaits of lines 442-443 can do: "ok" delivers, "forbidden" is
\* the discord.Forbidden that send_alert_embed swallows at line 535, "error"
\* is an exception that reaches line 445
DeliveryOutcomes == {"ok", "forbidden", "error"}

\* history: the Notifier was invoked for the pair being handled (the call is
\* counted in the behaviours that keep the count of the day)
NotifierCalled ==
    LET market_id == markets[mi].id
        user_id == user_rows[ui].user_id
        granted == alert_cache[<<market_id, user_id>>]
    IN  /\ last_notified' = Upsert(last_notified, <<market_id, user_id>>, granted)
        /\ notify_count' =
             IF notify_count = NotCounted \/ user_rows[ui].is_pro
             THEN notify_count
             ELSE LET seen == notify_count[user_id]
                  IN  [notify_count EXCEPT ![user_id] =
                         IF seen.n > 0 /\ seen.day = Date(granted)
                         THEN [seen EXCEPT !.n = Min(seen.n + 1, DailyLimit + 1)]
                         ELSE [day |-> Date(granted), n |-> 1]]

\* the except clause of line 445 undoing the cooldown record of the pair
poll_markets_deliver_rollback(outcome) ==
    /\ pc = "deliver"
    /\ NotifierCalled
    /\ alert_cache' = IF outcome = "error"
                      THEN RolledBack(alert_cache,
                                      <<markets[mi].id, user_rows[ui].user_id>>,
                                      prev_ts)
                      ELSE alert_cache
    /\ NextPair(IF outcome = "error" THEN alerts_sent ELSE alerts_sent + 1)
    /\ UNCHANGED <<users, now, start_time, loop_running, markets, last_start,
                   subs_changed, ev, acq, loops_alive, quota_denied>>

\* lines 440-446 without the try: an exception of the Notifier leaves
\* poll_markets at once and the loop stops
poll_markets_deliver_abort(outcome) ==
    /\ pc = "deliver"
    /\ NotifierCalled
    /\ IF outcome = "error"
       THEN /\ poll_markets_raises
            /\ UNCHANGED market_cache
       ELSE /\ NextPair(alerts_sent + 1)
            /\ UNCHANGED <<loop_running, loops_alive>>
    /\ UNCHANGED <<users, alert_cache, now, start_time, markets, last_start,
                   subs_changed, ev, acq, quota_denied>>

\* lines 440-446: the Notifier call returns
poll_markets_deliver(outcome) ==
    /\ pc = "deliver"
    /\ NotifierCalled
    /\ NextPair(IF outcome = "error" THEN alerts_sent ELSE alerts_sent + 1)
    /\ UNCHANGED <<users, alert_cache, now, start_time, loop_running, markets,
                   last_start, subs_changed, ev, acq, loops_alive, quota_denied>>

(***************************************************************************)
(* The bot as bot.run drives it: the clock, on_ready, the commands         *)
(* /subscribe and /threshold (between cycles and while a delivery is       *)
(* awaited) and the steps of poll_markets.  Domain: user u1 sends the      *)
(* commands, a fetch lists at most two entries of the markets m1 and m2,   *)
(* the clock moves by the cooldown window.  Spec keeps no count of the     *)
(* Notifier calls of a day, SpecDaily does.                                *)
(***************************************************************************)
Next ==
    \/ Tick
    \/ on_ready
    \/ \E u \in Commanders, k \in SubscribeArgs : subscribe(u, k)
    \/ \E u \in Commanders, p \in ThresholdArgs \cup {NaN} : set_threshold(u, p)
    \/ \E b \in Batches, o \in FetchOutcomes : poll_markets_start(b, o)
    \/ poll_markets_check
    \/ poll_markets_quota
    \/ \E o \in DeliveryOutcomes : poll_markets_deliver(o)

Spec == Init /\ [][Next]_vars

(***************************************************************************)
(* The same bot with the Notifier calls of each free user counted by day   *)
(***************************************************************************)
InitDaily ==
    /\ users \in {<<>>, <<ProRow("u2")>>}
    /\ alert_cache = EmptyTable
    /\ market_cache = EmptyTable
    /\ now = StartTime
    /\ start_time = StartTime
    /\ loop_running = FALSE
    /\ pc = "idle"
    /\ markets = <<>>
    /\ user_rows = <<>>
    /\ mi = 1
    /\ ui = 1
    /\ old_data = NoData
    /\ alerts_sent = 0
    /\ prev_ts = <<>>
    /\ last_notified = EmptyTable
    /\ notify_count = [u \in UserIds |-> [day |-> 0, n |-> 0]]
    /\ last_start = <<>>
    /\ repeat = <<>>
    /\ subs_changed = FALSE
    /\ ev = IdleEv
    /\ acq = IdleAcq
    /\ loops_alive = 0
    /\ quota_denied = [u \in UserIds |-> <<>>]

SpecDaily == InitDaily /\ [][Next]_vars

(***************************************************************************)
(* The cycles with three markets listed and one subscribed user, free or   *)
(* pro, started half an hour before midnight or at midnight; no           *)
(* command runs                                                            *)
(***************************************************************************)
InitQuota ==
    /\ users \in {<<SubscribedRow("u1", <<"b", "t", "c">>)>>, <<ProRow("u1")>>}
    /\ alert_cache = EmptyTable
    /\ market_cache = EmptyTable
    /\ now \in {LateStartTime, StartTime}
    /\ start_time = now
    /\ loop_running = FALSE
    /\ pc = "idle"
    /\ markets = <<>>
    /\ user_rows = <<>>
    /\ mi = 1
    /\ ui = 1
    /\ old_data = NoData
    /\ alerts_sent = 0
    /\ prev_ts = <<>>
    /\ last_notified = EmptyTable
    /\ notify_count = NotCounted
    /\ last_start = <<>>
    /\ repeat = <<>>
    /\ subs_changed = FALSE
    /\ ev = IdleEv
    /\ acq = IdleAcq
    /\ loops_alive = 0
    /\ quota_denied = [u \in UserIds |-> <<>>]

NextQuota ==
    \/ Tick
    \/ on_ready
    \/ \E b \in WideBatches, o \in FetchOutcomes : poll_markets_start(b, o)
    \/ poll_markets_check
    \/ poll_markets_quota
    \/ \E o \in DeliveryOutcomes : poll_markets_deliver(o)

SpecQuota == InitQuota /\ [][NextQuota]_vars

(***************************************************************************)
(* check_alert_conditions on its own: the inputs are drawn in the initial  *)
(* state, the step applies the function                                    *)
(***************************************************************************)
DetectPrices == {0, 4, 5, 6, 8, 10, 11, 12, 16}

DetectVolumes == {0, 1000, 3000, 3500, 5000, 6000, 20000}

DetectOldVolumes == {0, 1000, 2000}

DetectMarkets == {Snapshot("m1", p, v) : p \in DetectPrices, v \in DetectVolumes}

DetectOldData ==
    {NoData} \cup {<<[last_price |-> p, last_volume |-> v]>> :
                     p \in DetectPrices, v \in DetectOldVolumes}

InitDetect ==
    /\ users = <<>>
    /\ alert_cache = EmptyTable
    /\ market_cache = EmptyTable
    /\ now = StartTime
    /\ start_time = StartTime
    /\ loop_running = FALSE
    /\ pc = "idle"
    /\ markets = <<>>
    /\ user_rows = <<>>
    /\ mi = 1
    /\ ui = 1
    /\ old_data = NoData
    /\ alerts_sent = 0
    /\ prev_ts = <<>>
    /\ last_notified = EmptyTable
    /\ notify_count = NotCounted
    /\ last_start = <<>>
    /\ repeat = <<>>
    /\ subs_changed = FALSE
    /\ ev \in [market : DetectMarkets, old_data : DetectOldData,
               threshold : MinThreshold..MaxThreshold, out : {PendingEval}]
    /\ acq = IdleAcq
    /\ loops_alive = 0
    /\ quota_denied = [u \in UserIds |-> <<>>]

Evaluate ==
    /\ ev.out = PendingEval
    /\ ev' = [ev EXCEPT !.out = check_alert_conditions(ev.market, ev.old_data,
                                                       ev.threshold)]
    /\ UNCHANGED <<tables, now, start_time, loop_running, pc, locals, history, acq,
                   loops_alive, quota_denied>>

NextDetect == Evaluate

SpecDetect == InitDetect /\ [][NextDetect]_vars

(***************************************************************************)
(* The polling cycle over subscriptions that leave markets out: the rows   *)
(* are the ones /subscribe has written, no command runs                    *)
(***************************************************************************)

\* the keywords column after /subscribe x, nfl, btc, and x then nfl
FilterKeywords ==
    {<<"x">>, <<"n", "f", "l">>, <<"b", "t", "c">>, <<"x", " ", "n", "f", "l">>}

InitFilter ==
    /\ users \in {<<SubscribedRow("u1", k)>> : k \in FilterKeywords}
               \cup {<<SubscribedRow("u1", k), ProRow("u2")>> : k \in FilterKeywords}
    /\ alert_cache = EmptyTable
    /\ market_cache = EmptyTable
    /\ now = StartTime
    /\ start_time = StartTime
    /\ loop_running = FALSE
    /\ pc = "idle"
    /\ markets = <<>>
    /\ user_rows = <<>>
    /\ mi = 1
    /\ ui = 1
    /\ old_data = NoData
    /\ alerts_sent = 0
    /\ prev_ts = <<>>
    /\ last_notified = EmptyTable
    /\ notify_count = NotCounted
    /\ last_start = <<>>
    /\ repeat = <<>>
    /\ subs_changed = FALSE
    /\ ev = IdleEv
    /\ acq = IdleAcq
    /\ loops_alive = 0
    /\ quota_denied = [u \in UserIds |-> <<>>]

NextFilter ==
    \/ Tick
    \/ on_ready
    \/ \E b \in Batches, o \in FetchOutcomes : poll_markets_start(b, o)
    \/ poll_markets_check
    \/ poll_markets_quota
    \/ \E o \in DeliveryOutcomes : poll_markets_deliver(o)

SpecFilter == InitFilter /\ [][NextFilter]_vars

(***************************************************************************)
(* The commands on their own: every user sends /subscribe and /threshold   *)
(* with every argument, no cycle runs                                      *)
(***************************************************************************)
NextCommands ==
    \/ \E u \in UserIds, k \in SubscribeArgs : subscribe(u, k)
    \/ \E u \in UserIds, p \in AllThresholdArgs : set_threshold(u, p)

SpecCommands == Init /\ [][NextCommands]_vars

(***************************************************************************)
(* should_send_alert on its own: calls for two keys while the clock        *)
(* advances by single minutes or by one minute less than the window        *)
(***************************************************************************)
CooldownKeys == {<<"m1", "u1">>, <<"m2", "u1">>}

AdvanceMinutes == {1, CooldownMinutes - 1}

InitCooldown ==
    /\ users = <<>>
    /\ alert_cache = EmptyTable
    /\ market_cache = EmptyTable
    /\ now = StartTime
    /\ start_time = StartTime
    /\ loop_running = FALSE
    /\ pc = "idle"
    /\ markets = <<>>
    /\ user_rows = <<>>
    /\ mi = 1
    /\ ui = 1
    /\ old_data = NoData
    /\ alerts_sent = 0
    /\ prev_ts = <<>>
    /\ last_notified = EmptyTable
    /\ notify_count = NotCounted
    /\ last_start = <<>>
    /\ repeat = <<>>
    /\ subs_changed = FALSE
    /\ ev = IdleEv
    /\ acq = IdleAcq
    /\ loops_alive = 0
    /\ quota_denied = [u \in UserIds |-> <<>>]

Advance(minutes) ==
    /\ now + minutes <= start_time + MaxElapsed
    /\ now' = now + minutes
    /\ UNCHANGED <<tables, start_time, loop_running, pc, locals, history, ev, acq,
                   loops_alive, quota_denied>>

\* one call should_send_alert(market_id, user_id) at the time now: the
\* result, the record and the last grant of the key before the call
should_send_alert_call(market_id, user_id) ==
    LET key == <<market_id, user_id>>
        granted == should_send_alert(alert_cache, market_id, user_id, now)
    IN  /\ alert_cache' = mark_as_alerted(alert_cache, market_id, user_id, now)
        /\ acq' = [key |-> key, at |-> now, granted |-> granted,
                   since |-> IF key \in DOMAIN acq.grants
                             THEN <<acq.grants[key]>> ELSE <<>>,
                   was |-> IF key \in DOMAIN alert_cache
                           THEN <<alert_cache[key]>> ELSE <<>>,
                   grants |-> IF granted THEN Upsert(acq.grants, key, now)
                              ELSE acq.grants]
        /\ UNCHANGED <<users, market_cache, now, start_time, loop_running, pc, locals,
                       history, ev, loops_alive, quota_denied>>

NextCooldown ==
    \/ \E d \in AdvanceMinutes : Advance(d)
    \/ \E k \in CooldownKeys : should_send_alert_call(k[1], k[2])

SpecCooldown == InitCooldown /\ [][NextCooldown]_vars

(***************************************************************************)
(* Properties of the detector (SpecDetect)                                 *)
(***************************************************************************)
Evaluated == ev.out # PendingEval

EvNewPrice == ev.market.yes_price

EvNewVolume == ev.market.volume_24h

EvOldPrice == ev.old_data[1].last_price

EvOldVolume == ev.old_data[1].last_volume

\* abs(price_change_pct) >= threshold, the prior price being positive
EvRuleA ==
    /\ EvOldPrice > 0
    /\ Abs(EvNewPrice - EvOldPrice) * 100 >= ev.threshold * EvOldPrice

\* volume_change_pct > 200
EvVolumeJump ==
    /\ EvOldVolume > 0
    /\ (EvNewVolume - EvOldVolume) * 100 > 200 * EvOldVolume

\* volume_change_pct > 200 and current volume > 5000
EvRuleB == EvVolumeJump /\ EvNewVolume > 5000

\* C8: with a cached prior state whose price is positive, the detector
\* returns price_shift whenever abs(price_change_pct) >= threshold, equality
\* included, and returns no alert whenever abs(price_change_pct) < threshold
\* and the whale conditions do not both hold.
C8_PriceRuleFires ==
    (Evaluated /\ ev.old_data # NoData /\ EvOldPrice > 0) =>
        /\ EvRuleA => ev.out = [should_alert |-> TRUE, alert_type |-> "price_shift"]
        /\ (~ EvRuleA /\ ~ EvRuleB) =>
              ev.out = [should_alert |-> FALSE, alert_type |-> "None"]

\* the change equals the threshold exactly (0.3125 -> 0.375 is 20%) and the
\* detector has fired
C8_Witness ==
    /\ Evaluated
    /\ ev.old_data # NoData
    /\ EvOldPrice > 0
    /\ Abs(EvNewPrice - EvOldPrice) * 100 = ev.threshold * EvOldPrice
    /\ ev.out.alert_type = "price_shift"

\* C9: whenever the condition of Rule A and the condition of Rule B both
\* hold for one evaluation, the kind returned is price_shift, never
\* whale_alert.
C9_PriceShiftWins ==
    (Evaluated /\ ev.old_data # NoData /\ EvRuleA /\ EvRuleB) =>
        /\ ev.out.should_alert
        /\ ev.out.alert_type = "price_shift"

C9_Witness ==
    /\ Evaluated
    /\ ev.old_data # NoData
    /\ EvRuleA
    /\ EvRuleB
    /\ ev.out.alert_type = "price_shift"

\* C10: with a cached prior state, if volume_change_pct > 200 and the current
\* volume is above 5000 an alert fires for every threshold in 1..20, of kind
\* whale_alert when Rule A does not hold; a volume increase above 200% whose
\* current volume is not above 5000, the price unchanged, fires no alert.
C10_WhaleIgnoresThreshold ==
    (Evaluated /\ ev.old_data # NoData) =>
        /\ EvRuleB =>
              /\ ev.out.should_alert
              /\ ~ EvRuleA => ev.out.alert_type = "whale_alert"
        /\ (EvVolumeJump /\ ~ (EvNewVolume > 5000) /\ EvNewPrice = EvOldPrice) =>
              ~ ev.out.should_alert

\* volume 1000 -> 3500 at an unchanged price has been evaluated at the
\* highest threshold
C10_Witness ==
    /\ Evaluated
    /\ ev.old_data # NoData
    /\ EvOldVolume = 1000
    /\ EvNewVolume = 3500
    /\ EvNewPrice = EvOldPrice
    /\ ev.threshold = MaxThreshold
    /\ ~ ev.out.should_alert

(***************************************************************************)
(* Properties of the cooldown gate (SpecCooldown)                          *)
(***************************************************************************)
\* a call was made
Acquired == acq.key # <<>>

\* the key had been granted before the call
GrantedBefore == acq.since # <<>>

\* minutes between the last grant of the key and the call
SinceGrant == acq.at - acq.since[1]

\* C11: for one key, a call less than 30 minutes after the last granted call
\* returns false, a call 30 minutes or more after it returns true and
\* records the time of the call, and a call on a key without a record
\* returns true.
C11_CooldownAcquire ==
    Acquired =>
        /\ (GrantedBefore /\ SinceGrant < 30) => ~ acq.granted
        /\ (GrantedBefore /\ SinceGrant >= 30) => acq.granted
        /\ acq.was = <<>> => acq.granted
        /\ acq.granted => alert_cache[acq.key] = acq.at

\* a call exactly 30 minutes after the last grant of its key was granted
C11_Witness ==
    /\ Acquired
    /\ GrantedBefore
    /\ SinceGrant = 30
    /\ acq.granted
    /\ alert_cache[acq.key] = acq.at

\* C19: a call that returns false leaves alert_cache as it was, so the record
\* of every key is the time of its last granted call and a call 30 minutes
\* after that grant is granted however many calls were refused in between.
C19_DeniedKeepsRecord ==
    /\ [](DOMAIN alert_cache = DOMAIN acq.grants)
    /\ [](\A k \in DOMAIN alert_cache :
             /\ alert_cache[k] = acq.grants[k]
             /\ should_send_alert(alert_cache, k[1], k[2],
                                  acq.grants[k] + CooldownMinutes))
    /\ [][(acq' # acq /\ ~ acq'.granted) => alert_cache' = alert_cache]_vars

\* a call 29 minutes after the grant of its key was refused and the record
\* still holds the time of the grant
C19_Witness ==
    /\ Acquired
    /\ ~ acq.granted
    /\ GrantedBefore
    /\ SinceGrant = CooldownMinutes - 1
    /\ alert_cache[acq.key] = acq.since[1]

(***************************************************************************)
(* Properties of the polling cycle (Spec, SpecDaily, SpecQuota)            *)
(***************************************************************************)
\* the pair the cycle is handling
CurPair == <<markets[mi].id, user_rows[ui].user_id>>

CurRow == user_rows[ui]

\* the granted slot of the pair being handled
CurGrant == alert_cache[CurPair]

\* C1: the Notifier is never invoked for a (market, user) pair whose previous
\* invocation was granted its cooldown slot less than 30 minutes before the
\* slot of this one, a market id repeated in one batch included.
C1_CooldownBetweenAlerts ==
    (pc = "deliver" /\ CurPair \in DOMAIN last_notified) =>
        CurGrant - last_notified[CurPair] >= 30

\* a market listed twice in one batch is about to be notified a second time
\* in the same cycle, the window having elapsed during the first delivery
C1_Witness ==
    /\ pc = "deliver"
    /\ CurPair \in DOMAIN last_notified
    /\ mi = 2
    /\ markets[1].id = markets[2].id
    /\ CurGrant - last_notified[CurPair] >= 30

\* C2: the Notifier calls made for one free-tier user with cooldown grants on
\* one calendar date never number more than 3.
C2_FreeDailyLimit ==
    \A u \in DOMAIN notify_count : notify_count[u].n <= 3

\* the records of the user dated today that existed before the slot of the
\* pair being handled was granted
PriorCountToday ==
    Cardinality({k \in DOMAIN alert_cache :
                   /\ k[2] = CurRow.user_id
                   /\ k # CurPair
                   /\ Date(alert_cache[k]) = Date(now)})
    + (IF prev_ts # <<>> /\ Date(prev_ts[1]) = Date(now) THEN 1 ELSE 0)

\* C3: a free-tier user with fewer than 3 records dated today, the slot just
\* acquired not counted, is granted quota.
C3_QuotaCountsPriorOnly ==
    (pc = "quota" /\ ~ CurRow.is_pro /\ PriorCountToday < 3) =>
        has_quota(alert_cache, CurRow, now)

\* the step that decides the quota check of the pair being handled (the
\* clock may move before it)
QuotaStep == pc = "quota" /\ pc' # "quota"

\* C4: of a qualifying alert that was granted its cooldown slot, the quota
\* step denies a free-tier user who already had exactly 3 records dated
\* today (no Notifier call) and grants a pro-tier user whatever the count.
C4_QuotaTiers ==
    [][QuotaStep =>
         /\ CurRow.is_pro => pc' = "deliver"
         /\ (~ CurRow.is_pro /\ PriorCountToday = 3) => pc' # "deliver"]_vars

\* a free-tier user with exactly 3 records dated today has been granted a
\* cooldown slot and is at the quota step
C4_Witness ==
    /\ pc = "quota"
    /\ ~ CurRow.is_pro
    /\ PriorCountToday = 3

\* C5: at the end of every cycle whose fetch returned a market, the cache
\* entry of every fetched market is that market's (price, volume), whatever
\* the set of subscribed users (the cycle is over when poll_markets has
\* returned or an exception has left it).
C5_CacheEqualsFetched ==
    (pc = "idle" /\ markets # <<>>) =>
        \A i \in 1..Len(markets) :
            /\ markets[i].id \in DOMAIN market_cache
            /\ market_cache[markets[i].id] =
                 [last_price |-> markets[i].yes_price,
                  last_volume |-> markets[i].volume_24h]

\* less than the cooldown window has elapsed since the start of the cycle
\* that the cycle in progress repeats
InRepeatWindow == repeat # <<>> /\ now - repeat[1] < CooldownMinutes

\* C6: a cycle that has the fetched data and the subscriptions of the
\* previous one makes no Notifier call while less than the cooldown window
\* has elapsed since the start of the previous one.
C6_RepeatSendsNothing ==
    InRepeatWindow => pc # "deliver"

\* no id comes twice in the batch
DistinctIds(batch) ==
    \A i, j \in 1..Len(batch) : batch[i].id = batch[j].id => i = j

\* C6 restricted to batches without a repeated id
C6_RepeatDistinctSendsNothing ==
    (InRepeatWindow /\ DistinctIds(markets)) => pc \notin {"quota", "deliver"}

\* C7: while a market with no cached state is being processed no step
\* writes a cooldown record or reaches the quota check or the Notifier, and
\* the detector returns no alert for it at any threshold.
C7_FirstSightingSilent ==
    [][(pc = "user" /\ old_data = NoData) =>
         /\ alert_cache' = alert_cache
         /\ last_notified' = last_notified
         /\ pc' \in {"user", "idle"}
         /\ \A th \in MinThreshold..MaxThreshold :
               ~ check_alert_conditions(markets[mi], old_data, th).should_alert]_vars

\* the second subscription is being checked against a market that has no
\* cached state, the first one matched the market and was passed over
C7_Witness ==
    /\ pc = "user"
    /\ old_data = NoData
    /\ ui = 2
    /\ market_matches(markets[mi], user_rows[1].keywords)
    /\ markets[mi].id \notin DOMAIN market_cache

\* a step in which a cycle starts at the time now and the fetch returns
\* the empty list: the start is stamped, the list read is empty and the
\* commands written so far are accounted for (a fetch that raises returns
\* nothing and stamps nothing)
EmptyFetchStep ==
    /\ <<markets, last_start, repeat, subs_changed>>'
         # <<markets, last_start, repeat, subs_changed>>
    /\ markets' = <<>>
    /\ last_start' = <<now>>
    /\ ~ subs_changed'

\* C12: a cycle whose fetch returns the empty list, a failed request
\* included, ends at once without a Notifier call and leaves users,
\* alert_cache and market_cache as they were, and the loop keeps running.
C12_EmptyFetchSkips ==
    [][(pc = "idle" /\ loop_running /\ EmptyFetchStep) =>
          /\ pc' = "idle"
          /\ tables' = tables
          /\ last_notified' = last_notified
          /\ loop_running']_vars

\* a cycle whose fetch yielded nothing has run after cycles that filled the
\* tables
C12_Witness ==
    /\ pc = "idle"
    /\ markets = <<>>
    /\ last_start # <<>>
    /\ users # <<>>
    /\ market_cache # EmptyTable
    /\ alert_cache # EmptyTable

\* the records of the user of the pair being handled, the pair left out,
\* that are dated as the grant of the pair
OtherRecordsOfDay(table) ==
    Cardinality({k \in DOMAIN table :
                   /\ k[2] = CurRow.user_id
                   /\ k # CurPair
                   /\ Date(table[k]) = Date(CurGrant)})

\* C13: when the Notifier fails for a granted alert the record of the pair
\* is kept: no call for the pair is granted before 30 minutes after the
\* grant, the record is one of those the quota count of its day counts, and
\* the cycle moves on without calling the Notifier again for the pair.
C13_FailedDeliveryKeepsRecord ==
    [][poll_markets_deliver("error") =>
          /\ alert_cache' = alert_cache
          /\ CurPair \in DOMAIN alert_cache'
          /\ \A t \in now..(CurGrant + CooldownMinutes - 1) :
                ~ should_send_alert(alert_cache', CurPair[1], CurPair[2], t)
          /\ alert_count(alert_cache', CurRow.user_id, CurGrant)
                = OtherRecordsOfDay(alert_cache') + 1
          /\ pc' \in {"user", "idle"}
          /\ pc' = "user" => <<mi', ui'>> # <<mi, ui>>]_vars

\* the only delivery of the cycle so far, to a free-tier user for the first
\* market, failed (the Notifier was called, nothing is counted as sent), and
\* the record granted at the start of the cycle is in the table
C13_Witness ==
    /\ pc = "user"
    /\ Len(user_rows) = 1
    /\ ~ user_rows[1].is_pro
    /\ mi = 2
    /\ last_start[1] < now
    /\ alerts_sent = 0
    /\ <<markets[1].id, user_rows[1].user_id>> \in DOMAIN alert_cache
    /\ alert_cache[<<markets[1].id, user_rows[1].user_id>>] = last_start[1]
    /\ <<markets[1].id, user_rows[1].user_id>> \in DOMAIN last_notified
    /\ last_notified[<<markets[1].id, user_rows[1].user_id>>] = last_start[1]

\* C14: a failed delivery does not end the cycle: the step goes on to the
\* next user of the market, or writes the cache entry of the market and goes
\* on to the next market, or ends the cycle after the last market, and
\* leaves every table and every local the decisions depend on as a
\* successful delivery would.
C14_FailureDoesNotAbort ==
    [][poll_markets_deliver("error") =>
          /\ UNCHANGED <<users, alert_cache, now, markets, loop_running>>
          /\ IF ui < Len(user_rows)
             THEN /\ pc' = "user"
                  /\ <<mi', ui'>> = <<mi, ui + 1>>
                  /\ UNCHANGED <<market_cache, old_data, user_rows>>
             ELSE /\ market_cache' = update_market_cache(market_cache, markets[mi])
                  /\ IF mi < Len(markets)
                     THEN /\ pc' = "user"
                          /\ <<mi', ui'>> = <<mi + 1, 1>>
                          /\ user_rows' = user_rows
                          /\ old_data' = get_cached_market_data(market_cache',
                                                                markets[mi + 1].id)
                     ELSE pc' = "idle"]_vars

\* the delivery to the first of two users for the first of two markets
\* failed (the Notifier was called, nothing is counted as sent) and the
\* cycle is checking the second user
C14_Witness ==
    /\ pc = "user"
    /\ Len(markets) = 2
    /\ Len(user_rows) = 2
    /\ mi = 1
    /\ ui = 2
    /\ last_start[1] < now
    /\ <<markets[1].id, user_rows[1].user_id>> \in DOMAIN last_notified
    /\ last_notified[<<markets[1].id, user_rows[1].user_id>>] = last_start[1]
    /\ alerts_sent = 0

\* the keyword set of the subscription being handled
KeywordSet == {Split(CurRow.keywords)[i] : i \in 1..Len(Split(CurRow.keywords))}

\* the keyword set is empty, or a keyword is a substring of the lower-cased
\* question, or a keyword equals the category tag
Matches ==
    \/ KeywordSet = {}
    \/ \E kw \in KeywordSet : IsSubstring(kw, Lower(markets[mi].question))
    \/ \E kw \in KeywordSet : kw = markets[mi].category

\* C15: the filter lets a market through for a subscription exactly when the
\* keyword set is empty, or a keyword is a substring of the lower-cased
\* question, or a keyword equals the category; for a pair it does not let
\* through, the cycle writes no cooldown record and makes no Notifier call,
\* whatever the change of price or volume.
C15_MatchingFilter ==
    /\ [](pc = "user" => (market_matches(markets[mi], CurRow.keywords) <=> Matches))
    /\ [][(pc = "user" /\ ~ Matches) =>
            /\ alert_cache' = alert_cache
            /\ last_notified' = last_notified
            /\ pc' \in {"user", "idle"}]_vars

\* a market whose price moved past the threshold is being checked for a
\* subscription whose keywords it does not match, and the pair has no record
C15_Witness ==
    /\ pc = "user"
    /\ ~ Matches
    /\ KeywordSet # {}
    /\ check_alert_conditions(markets[mi], old_data, CurRow.threshold).should_alert
    /\ CurPair \notin DOMAIN alert_cache

\* a step in which a cycle starts: the start is stamped, or the fetched
\* list or the rows of the cycle are read
CycleStartStep ==
    \/ last_start' # last_start
    \/ markets' # markets
    \/ (user_rows = <<>> /\ user_rows' # <<>>)

\* C16: however many on_ready events arrive there is never more than one
\* polling loop alive (poll_markets.start() is only called when none is),
\* and a cycle only starts when no cycle is in progress.
C16_SingleLoop ==
    /\ [](loops_alive <= 1)
    /\ [](loop_running <=> loops_alive = 1)
    /\ [][(loop_running /\ on_ready) => UNCHANGED vars]_vars
    /\ [](pc # "idle" => loop_running)
    /\ [][CycleStartStep => (pc = "idle" /\ loop_running)]_vars

\* one loop is alive and a cycle of it is awaiting a delivery, the point at
\* which a further on_ready can arrive
C16_Witness ==
    /\ loops_alive = 1
    /\ loop_running
    /\ pc = "deliver"

\* C17: after any sequence of subscribe and set-threshold commands, rejected
\* ones included, every stored subscription's threshold lies in [1, 20].
C17_ThresholdInRange ==
    \A i \in 1..Len(users) : users[i].threshold \in MinThreshold..MaxThreshold

\* C18: when the quota check refuses a free-tier user's alert that was
\* granted its cooldown slot, the Notifier is not called and the record just
\* written stays: no call for the pair is granted before 30 minutes after
\* the grant, and the quota count of the day of the grant includes it.
C18_QuotaDenialKeepsRecord ==
    [][(QuotaStep /\ pc' # "deliver") =>
          /\ ~ CurRow.is_pro
          /\ alert_cache' = alert_cache
          /\ last_notified' = last_notified
          /\ CurPair \in DOMAIN alert_cache'
          /\ alert_cache'[CurPair] = CurGrant
          /\ CurGrant <= now
          /\ \A t \in CurGrant..(CurGrant + CooldownMinutes - 1) :
                ~ should_send_alert(alert_cache', CurPair[1], CurPair[2], t)
          /\ alert_count(alert_cache', CurRow.user_id, CurGrant)
                = OtherRecordsOfDay(alert_cache') + 1]_vars

\* between cycles the table holds, for a free-tier user, a record for whose
\* grant the Notifier was never called: the quota check refused the alert
C18_Witness ==
    /\ pc = "idle"
    /\ \E k \in DOMAIN alert_cache :
          /\ \E i \in 1..Len(users) : users[i].user_id = k[2] /\ ~ users[i].is_pro
          /\ k \in DOMAIN last_notified => last_notified[k] # alert_cache[k]

\* C20: while the date does not change no step lowers the number of records
\* of a user dated that day, and a free-tier user whom the quota check has
\* refused that day is refused at every later quota check of the day, for
\* any market.
C20_DenialLastsTheDay ==
    /\ [][Date(now') = Date(now) =>
            \A u \in UserIds :
                alert_count(alert_cache', u, now')
                  >= alert_count(alert_cache, u, now)]_vars
    /\ []((pc = "quota" /\ ~ CurRow.is_pro
             /\ quota_denied[CurRow.user_id] = <<Date(now)>>) =>
            ~ has_quota(alert_cache, CurRow, now))

\* a free-tier user refused earlier in the day was granted a cooldown slot
\* for the first market of a later cycle and is at the quota check again
C20_Witness ==
    /\ pc = "quota"
    /\ ~ CurRow.is_pro
    /\ quota_denied[CurRow.user_id] = <<Date(now)>>
    /\ mi = 1
    /\ alert_cache[CurPair] = now
    /\ \E k \in DOMAIN alert_cache :
          alert_cache[k] < now /\ Date(alert_cache[k]) = Date(now)

\* the pair being handled passes the filter, the detector and the cooldown
\* gate on the row the cycle read at its start and the prior state it read
\* for the market
PassesOnRowsRead ==
    /\ market_matches(markets[mi], CurRow.keywords)
    /\ check_alert_conditions(markets[mi], old_data, CurRow.threshold).should_alert
    /\ should_send_alert(alert_cache, CurPair[1], CurPair[2], now)

\* the row of the table users, as it is now, of the user being handled
LiveRow == users[CHOOSE i \in 1..Len(users) : users[i].user_id = CurRow.user_id]

\* a step keeps the rows and the prior state the cycle in progress has read,
\* a command during a delivery moves nothing of the cycle, the step that
\* handles a pair (the clock stands in it) goes to the quota check exactly
\* when the rows read say so, and a cycle that starts reads the table users
\* as it is
SnapshotStep ==
    /\ (pc # "idle" /\ pc' # "idle") =>
          /\ user_rows' = user_rows
          /\ markets' = markets
          /\ (mi' = mi => old_data' = old_data)
    /\ (pc = "deliver" /\ users' # users) =>
          /\ pc' = pc
          /\ UNCHANGED <<alert_cache, market_cache, locals>>
    /\ (pc = "user" /\ now' = now) => (pc' = "quota" <=> PassesOnRowsRead)
    /\ (QuotaStep /\ CurRow.is_pro) => pc' = "deliver"
    /\ (pc = "idle" /\ pc' # "idle") => user_rows' = users

\* C21: a cycle decides with the rows it read from users at its start and
\* with the prior state it read once for the market: a command that runs
\* during a delivery changes neither, every decision of the cycle follows
\* from them, and the rows written by the command are read by the next cycle.
C21_CycleUsesSnapshot ==
    /\ [](pc # "idle" =>
            old_data = get_cached_market_data(market_cache, markets[mi].id))
    /\ [][SnapshotStep]_vars

\* the threshold of the user being handled was changed by a command during
\* a delivery of this cycle, and the detector alerts at the threshold the
\* cycle read but not at the one now in the table
C21_Witness ==
    /\ pc = "user"
    /\ subs_changed
    /\ LiveRow.threshold # CurRow.threshold
    /\ check_alert_conditions(markets[mi], old_data, CurRow.threshold).should_alert
    /\ ~ check_alert_conditions(markets[mi], old_data, LiveRow.threshold).should_alert

====
